---- MODULE Spec2Model ----
(***************************************************************************)
(* A model of g9ptools' ramfs/ramtree package: the in-memory file nodes    *)
(* (RAMFile), directory nodes (RAMTree) and their open-handle sessions     *)
(* (RAMOpenFile, RAMOpenTree).                                             *)
(*                                                                         *)
(* Every handler of the package is an operator from the program state      *)
(* (the heap of nodes, the sessions handed out so far) to the state after  *)
(* the call together with the call's return values.  Two specifications    *)
(* use them:                                                               *)
(*   Spec      one caller at a time: every action is one whole call;       *)
(*   ConcSpec  several goroutines, each call split at its lock operations  *)
(*             and at its unsynchronised accesses to shared memory.        *)
(*                                                                         *)
(* Abstractions.  atime/mtime are left out: no handler reads them except   *)
(* Stat, which only reports them.  A FileMode or a set of permission bits  *)
(* is the set of the positions of its one-bits (DMDIR is bit 31), so that  *)
(* & is \cap and | is \cup.  A byte is a natural number; 0 is the zero     *)
(* byte.  A []byte is its visible part (content) plus the bytes of its     *)
(* backing array between len and cap (spare).  A run-time panic (nil       *)
(* dereference, slice bounds out of range) is the result "panic".          *)
(***************************************************************************)
EXTENDS Integers, Sequences, FiniteSets, TLC

\* ------------------------------------------------------------------ bounds

\* Nodes ever allocated (the root included).
MaxNodes == 3
\* File sessions ever handed out by RAMFile.Open.
MaxFileSessions == 1
\* Directory sessions ever handed out by RAMTree.Open.
MaxTreeSessions == 1
\* Longest file content.
MaxLen == 2
\* A node is mutated while its version is below this.
MaxVersion == 2

\* ---------------------------------------------------------------- universe

Nil == 0
Names == {"a", "b"}
Users == {"u1", "u2"}
Bytes == {120, 121}
OpenModes == {"OREAD", "OWRITE", "ORDWR", "OEXEC"}
AllBits == 0..31
DMDIR == {31}
M0777 == 0..8
M0666 == {1, 2, 4, 5, 7, 8}
M0755 == {0, 2, 3, 5, 6, 7, 8}
M0555 == {0, 2, 3, 5, 6, 8}
\* ^uint64(0), the "length unchanged" value of a Stat.
NoLength == -1
Panic == "panic"

Min(a, b) == IF a < b THEN a ELSE b
Zeros(n) == [i \in 1..n |-> 0]
EmptyTree == [n \in {} |-> Nil]

\* All orders in which a Go map with key set S may be iterated.
RECURSIVE Orders(_)
Orders(S) ==
  IF S = {} THEN {<<>>}
  ELSE UNION {{<<x>> \o r : r \in Orders(S \ {x})} : x \in S}

\* What a handler returns: the state after it, its value(s) and its error.
R(h, o, n, data, err) == [heap |-> h, handles |-> o, n |-> n, data |-> data, err |-> err]

\* ------------------------------------------------------ external collaborators

\* The permission predicate: the owner is judged by the owner bits, anybody
\* else by the other bits; read is bit 2, write bit 1, execute bit 0 of the class.
permCheck(owner, permissions, mode) ==
  LET off == IF owner THEN 6 ELSE 0
  IN CASE mode = "OREAD"  -> (2 + off) \in permissions
       [] mode = "OWRITE" -> (1 + off) \in permissions
       [] mode = "ORDWR"  -> (2 + off) \in permissions /\ (1 + off) \in permissions
       [] mode = "OEXEC"  -> off \in permissions
       [] OTHER -> FALSE

\* protocol.Stat.Encode: the fixed-size fields, then the strings.
Encode(s) ==
  << [part |-> "fixed", Qid |-> s.Qid, Mode |-> s.Mode, Length |-> s.Length],
     [part |-> "strings", Name |-> s.Name, UID |-> s.UID, GID |-> s.GID, MUID |-> s.MUID] >>

\* -------------------------------------------------------------------- nodes

NewRAMFile(name, permissions, user, group, id) ==
  [dir |-> FALSE, parent |-> Nil, content |-> <<>>, spare |-> <<>>, tree |-> EmptyTree,
   id |-> id, name |-> name, user |-> user, group |-> group, muser |-> user,
   version |-> 0, permissions |-> permissions, opens |-> 0]

NewRAMTree(name, permissions, user, group, id) ==
  [dir |-> TRUE, parent |-> Nil, content |-> <<>>, spare |-> <<>>, tree |-> EmptyTree,
   id |-> id, name |-> name, user |-> user, group |-> group, muser |-> user,
   version |-> 0, permissions |-> permissions, opens |-> 0]

NewSession(isdir, n) == [dir |-> isdir, node |-> n, offset |-> 0, buffer |-> <<>>]

\* ------------------------------------------------------------- RAMOpenFile

\* The offset a Seek asks for; "bad" for an unknown whence.
SeekTarget(cur, length, offset, whence) ==
  CASE whence = 0 -> offset
    [] whence = 1 -> cur + offset
    [] whence = 2 -> length + offset
    [] OTHER -> "bad"

\* Mutant of RAMOpenFile_Seek: the end of the content is refused too.
RAMOpenFile_Seek_EndRefused(h, o, s, offset, whence) ==
  IF o[s].node = Nil THEN R(h, o, 0, <<>>, "file not open")
  ELSE
    LET length == Len(h[o[s].node].content)
    IN IF whence \notin {0, 1, 2} THEN R(h, o, o[s].offset, <<>>, "invalid whence value")
       ELSE LET t == SeekTarget(o[s].offset, length, offset, whence)
            IN IF t < 0 THEN R(h, o, o[s].offset, <<>>, "negative seek invalid")
               ELSE IF t >= length THEN R(h, o, o[s].offset, <<>>, "seek past length")
               ELSE R(h, [o EXCEPT ![s].offset = t], t, <<>>, "")

RAMOpenFile_Seek(h, o, s, offset, whence) ==
  IF o[s].node = Nil THEN R(h, o, 0, <<>>, "file not open")
  ELSE
    LET length == Len(h[o[s].node].content)
    IN IF whence \notin {0, 1, 2} THEN R(h, o, o[s].offset, <<>>, "invalid whence value")
       ELSE LET t == SeekTarget(o[s].offset, length, offset, whence)
            IN IF t < 0 THEN R(h, o, o[s].offset, <<>>, "negative seek invalid")
               ELSE IF t > length THEN R(h, o, o[s].offset, <<>>, "seek past length")
               ELSE R(h, [o EXCEPT ![s].offset = t], t, <<>>, "")

RAMOpenFile_Read(h, o, s, plen) ==
  IF o[s].node = Nil THEN R(h, o, 0, <<>>, "file not open")
  ELSE
    LET f         == h[o[s].node]
        off       == o[s].offset
        remaining == Len(f.content) - off
        maxRead   == IF plen > remaining THEN remaining ELSE plen
        low       == off
        high      == maxRead + off
    IN \* content[low:high] needs 0 <= low <= high <= cap
       IF ~(0 <= low /\ low <= high /\ high <= Len(f.content) + Len(f.spare))
       THEN R(h, o, 0, <<>>, Panic)
       ELSE R(h, [o EXCEPT ![s].offset = off + maxRead], maxRead,
              SubSeq(f.content \o f.spare, low + 1, high), "")

\* Mutant of CopyAt: nothing is copied.
CopyAt_Nothing(dst, off, p) == dst

\* copy(dst[off:], p) into a slice of length Len(dst), off <= Len(dst).
CopyAt(dst, off, p) ==
  [i \in 1..Len(dst) |-> IF i > off /\ i - off <= Len(p) THEN p[i - off] ELSE dst[i]]

\* The buffer Write allocates when it grows the file: make, then
\* copy(b, content[:off]).  "bad" when content[:off] is out of range.
GrownBuffer(f, off, wlen) ==
  IF off > Len(f.content) + Len(f.spare) THEN "bad"
  ELSE SubSeq(f.content \o f.spare, 1, off) \o Zeros(wlen)

RAMOpenFile_Write(h, o, s, p) ==
  IF o[s].node = Nil THEN R(h, o, 0, <<>>, "file not open")
  ELSE
    LET n    == o[s].node
        f    == h[n]
        off  == o[s].offset
        wlen == Len(p)
        grow == wlen + off > Len(f.content)
    IN IF grow /\ off > Len(f.content) + Len(f.spare) THEN R(h, o, 0, <<>>, Panic)
       ELSE
         LET c1 == IF grow THEN GrownBuffer(f, off, wlen) ELSE f.content
             s1 == IF grow THEN <<>> ELSE f.spare
         IN R([h EXCEPT ![n].content = CopyAt(c1, off, p),
                        ![n].spare = s1,
                        ![n].version = f.version + 1],
              [o EXCEPT ![s].offset = off + wlen], wlen, <<>>, "")

RAMOpenFile_Close(h, o, s) ==
  IF o[s].node = Nil THEN R(h, o, 0, <<>>, Panic)
  ELSE R([h EXCEPT ![o[s].node].opens = @ - 1], [o EXCEPT ![s].node = Nil], 0, <<>>, "")

\* ----------------------------------------------------------------- RAMFile

RAMFile_Qid(f) == [Type |-> "QTFILE", Version |-> f.version, Path |-> f.id]

\* Mutant of RAMFile_WriteStat: the fields are stored before the length is tested.
RAMFile_WriteStat_StoresFirst(h, n, s) ==
  LET f == h[n]
      g == [f EXCEPT !.name = s.Name, !.user = s.UID, !.group = s.GID,
                     !.permissions = s.Mode]
  IN IF s.Length # NoLength /\ s.Length > Len(f.content)
     THEN R([h EXCEPT ![n] = g], <<>>, 0, <<>>, "cannot extend length")
     ELSE
       LET cut == s.Length # NoLength
           c1  == IF cut THEN SubSeq(f.content, 1, s.Length) ELSE f.content
           s1  == IF cut THEN SubSeq(f.content, s.Length + 1, Len(f.content)) \o f.spare
                  ELSE f.spare
       IN R([h EXCEPT ![n] = [g EXCEPT !.content = c1, !.spare = s1,
                                       !.version = f.version + 1]],
            <<>>, 0, <<>>, "")

RAMFile_WriteStat(h, n, s) ==
  LET f == h[n]
  IN IF s.Length # NoLength /\ s.Length > Len(f.content)
     THEN R(h, <<>>, 0, <<>>, "cannot extend length")
     ELSE
       LET cut == s.Length # NoLength
           c1  == IF cut THEN SubSeq(f.content, 1, s.Length) ELSE f.content
           s1  == IF cut THEN SubSeq(f.content, s.Length + 1, Len(f.content)) \o f.spare
                  ELSE f.spare
       IN R([h EXCEPT ![n] = [f EXCEPT !.content = c1, !.spare = s1,
                                       !.name = s.Name, !.user = s.UID, !.group = s.GID,
                                       !.permissions = s.Mode, !.version = f.version + 1]],
            <<>>, 0, <<>>, "")

RAMFile_Stat(f) ==
  [Qid |-> RAMFile_Qid(f), Mode |-> f.permissions, Name |-> f.name,
   Length |-> Len(f.content), UID |-> f.user, GID |-> f.user, MUID |-> f.user]

\* Mutant of RAMFile_Open: the permission check is forgotten.
RAMFile_Open_Unchecked(h, o, n, user, mode) ==
  R([h EXCEPT ![n].opens = @ + 1], Append(o, NewSession(FALSE, n)), Len(o) + 1, <<>>, "")

RAMFile_Open(h, o, n, user, mode) ==
  LET owner == h[n].user = user
  IN IF ~permCheck(owner, h[n].permissions, mode) THEN R(h, o, Nil, <<>>, "access denied")
     ELSE R([h EXCEPT ![n].opens = @ + 1], Append(o, NewSession(FALSE, n)),
            Len(o) + 1, <<>>, "")

\* Mutant of RAMFile_CanRemove: a file that is open is not removable.
RAMFile_CanRemove_Unopened(f) == f.opens = 0

RAMFile_CanRemove(f) == TRUE

\* ----------------------------------------------------------------- RAMTree

RAMTree_Qid(t) == [Type |-> "QTDIR", Version |-> t.version, Path |-> t.id]

RAMTree_Name(t) == IF t.name = "" THEN "/" ELSE t.name

RAMTree_Stat(t) ==
  [Qid |-> RAMTree_Qid(t), Mode |-> t.permissions \cup DMDIR, Name |-> RAMTree_Name(t),
   Length |-> 0, UID |-> t.user, GID |-> t.group, MUID |-> t.muser]

\* fileserver.File.Stat, dispatched on the node's type.
File_Stat(f) == IF f.dir THEN RAMTree_Stat(f) ELSE RAMFile_Stat(f)

RAMTree_WriteStat(h, n, s) ==
  R([h EXCEPT ![n] = [@ EXCEPT !.name = s.Name, !.user = s.UID, !.group = s.GID,
                               !.permissions = s.Mode, !.version = @ + 1]],
    <<>>, 0, <<>>, "")

RAMTree_Open(h, o, n, user, mode) ==
  LET owner == h[n].user = user
  IN IF ~permCheck(owner, h[n].permissions, mode) THEN R(h, o, Nil, <<>>, "access denied")
     ELSE R([h EXCEPT ![n].opens = @ + 1], Append(o, NewSession(TRUE, n)),
            Len(o) + 1, <<>>, "")

\* Mutant of RAMTree_CanRemove: a directory is removable whatever it holds.
RAMTree_CanRemove_Always(t) == TRUE

RAMTree_CanRemove(t) == Cardinality(DOMAIN t.tree) = 0

\* fileserver.File.CanRemove, dispatched on the node's type.
File_CanRemove(f) == IF f.dir THEN RAMTree_CanRemove(f) ELSE RAMFile_CanRemove(f)

\* t.tree[name] = d
TreePut(tree, name, d) ==
  [k \in DOMAIN tree \cup {name} |-> IF k = name THEN d ELSE tree[k]]

\* delete(t.tree, name)
TreeDelete(tree, name) == [k \in DOMAIN tree \ {name} |-> tree[k]]

\* The permissions Create gives the new node.
CreatePerms(perms, tperms) ==
  IF perms \cap DMDIR # {}
  THEN perms \cap ((AllBits \ M0777) \cup (tperms \cap M0777))
  ELSE perms \cap ((AllBits \ M0666) \cup (tperms \cap M0666))

RAMTree_Create(h, n, user, name, perms) ==
  LET t     == h[n]
      owner == t.user = user
      id    == Len(h) + 1
      p     == CreatePerms(perms, t.permissions)
      d     == IF perms \cap DMDIR # {} THEN NewRAMTree(name, p, t.user, t.group, id)
               ELSE NewRAMFile(name, p, t.user, t.group, id)
  IN IF ~permCheck(owner, t.permissions, "OWRITE") THEN R(h, <<>>, Nil, <<>>, "access denied")
     ELSE IF name \in DOMAIN t.tree THEN R(h, <<>>, Nil, <<>>, "file already exists")
     ELSE R(Append([h EXCEPT ![n].tree = TreePut(t.tree, name, id),
                             ![n].version = t.version + 1], d),
            <<>>, id, <<>>, "")

\* Add of a node f the caller has just built (f.id is the next identifier).
RAMTree_Add(h, n, name, f) ==
  LET t == h[n]
  IN IF name \in DOMAIN t.tree THEN R(h, <<>>, 0, <<>>, "file already exists")
     ELSE R(Append([h EXCEPT ![n].tree = TreePut(t.tree, name, f.id),
                             ![n].version = t.version + 1], f),
            <<>>, 0, <<>>, "")

\* Mutant of RAMTree_Rename: the old entry is not deleted.
RAMTree_Rename_KeepsOld(h, n, user, oldname, newname) ==
  LET t     == h[n]
      owner == t.user = user
  IN IF oldname \notin DOMAIN t.tree THEN R(h, <<>>, 0, <<>>, "file not found")
     ELSE IF newname \in DOMAIN t.tree THEN R(h, <<>>, 0, <<>>, "file already exists")
     ELSE IF ~permCheck(owner, t.permissions, "OWRITE") THEN R(h, <<>>, 0, <<>>, "access denied")
     ELSE R([h EXCEPT ![n].tree = TreePut(t.tree, newname, t.tree[oldname])],
            <<>>, 0, <<>>, "")

RAMTree_Rename(h, n, user, oldname, newname) ==
  LET t     == h[n]
      owner == t.user = user
  IN IF oldname \notin DOMAIN t.tree THEN R(h, <<>>, 0, <<>>, "file not found")
     ELSE IF newname \in DOMAIN t.tree THEN R(h, <<>>, 0, <<>>, "file already exists")
     ELSE IF ~permCheck(owner, t.permissions, "OWRITE") THEN R(h, <<>>, 0, <<>>, "access denied")
     ELSE R([h EXCEPT ![n].tree = TreeDelete(TreePut(t.tree, newname, t.tree[oldname]),
                                             oldname)],
            <<>>, 0, <<>>, "")

RAMTree_Remove(h, n, user, name) ==
  LET t     == h[n]
      owner == t.user = user
  IN IF ~permCheck(owner, t.permissions, "OWRITE") THEN R(h, <<>>, 0, <<>>, "access denied")
     ELSE IF name \in DOMAIN t.tree
     THEN IF ~File_CanRemove(h[t.tree[name]])
          THEN R(h, <<>>, 0, <<>>, "file could not be removed")
          ELSE R([h EXCEPT ![n].tree = TreeDelete(t.tree, name),
                           ![n].version = t.version + 1],
                 <<>>, 0, <<>>, "")
     ELSE R(h, <<>>, 0, <<>>, "no such file")

\* Mutant of RAMTree_Walk: the permission check is forgotten.
RAMTree_Walk_Unchecked(h, n, user, name) ==
  IF name \in DOMAIN h[n].tree THEN R(h, <<>>, h[n].tree[name], <<>>, "")
  ELSE R(h, <<>>, Nil, <<>>, "")

RAMTree_Walk(h, n, user, name) ==
  LET t     == h[n]
      owner == t.user = user
  IN IF ~permCheck(owner, t.permissions, "OEXEC") THEN R(h, <<>>, Nil, <<>>, "access denied")
     ELSE IF name \in DOMAIN t.tree THEN R(h, <<>>, t.tree[name], <<>>, "")
     ELSE R(h, <<>>, Nil, <<>>, "")

RAMTree_Parent(h, n) == IF h[n].parent = Nil THEN n ELSE h[n].parent

RAMFile_Parent(h, n) == h[n].parent

\* ------------------------------------------------------------- RAMOpenTree

\* The listing update() builds when the map is iterated in `order`.
RECURSIVE Listing(_, _, _)
Listing(h, tree, order) ==
  IF order = <<>> THEN <<>>
  ELSE Encode(File_Stat(h[tree[Head(order)]])) \o Listing(h, tree, Tail(order))

update(h, o, s, order) ==
  [o EXCEPT ![s].buffer = Listing(h, h[o[s].node].tree, order)]

\* Mutant of RAMOpenTree_Seek: every target that is not negative is accepted.
RAMOpenTree_Seek_Anywhere(h, o, s, offset, whence, order) ==
  IF o[s].node = Nil THEN R(h, o, 0, <<>>, "file not open")
  ELSE
    LET length == Len(o[s].buffer)
    IN IF whence \notin {0, 1, 2} THEN R(h, o, o[s].offset, <<>>, "invalid whence value")
       ELSE LET t == SeekTarget(o[s].offset, length, offset, whence)
            IN IF t < 0 THEN R(h, o, o[s].offset, <<>>, "negative seek invalid")
               ELSE R(h, update(h, [o EXCEPT ![s].offset = t], s, order), t, <<>>, "")

RAMOpenTree_Seek(h, o, s, offset, whence, order) ==
  IF o[s].node = Nil THEN R(h, o, 0, <<>>, "file not open")
  ELSE
    LET length == Len(o[s].buffer)
    IN IF whence \notin {0, 1, 2} THEN R(h, o, o[s].offset, <<>>, "invalid whence value")
       ELSE LET t == SeekTarget(o[s].offset, length, offset, whence)
            IN IF t < 0 THEN R(h, o, o[s].offset, <<>>, "negative seek invalid")
               ELSE IF t # 0 /\ t # o[s].offset
               THEN R(h, o, o[s].offset, <<>>, "seek to other than 0 on dir illegal")
               ELSE R(h, update(h, [o EXCEPT ![s].offset = t], s, order), t, <<>>, "")

RAMOpenTree_Read(h, o, s, plen) ==
  IF o[s].node = Nil THEN R(h, o, 0, <<>>, "file not open")
  ELSE
    LET off  == o[s].offset
        rem  == Len(o[s].buffer) - off
        rlen == IF plen > rem THEN rem ELSE plen
    IN \* buffer[off:rlen+off] needs off <= rlen+off
       IF rlen < 0 THEN R(h, o, 0, <<>>, Panic)
       ELSE R(h, [o EXCEPT ![s].offset = off + rlen], rlen,
              SubSeq(o[s].buffer, off + 1, off + rlen), "")

RAMOpenTree_Write(h, o, s, p) == R(h, o, 0, <<>>, "cannot write to directory")

RAMOpenTree_Close(h, o, s) ==
  IF o[s].node = Nil THEN R(h, o, 0, <<>>, Panic)
  ELSE R([h EXCEPT ![o[s].node].opens = @ - 1], [o EXCEPT ![s].node = Nil], 0, <<>>, "")

\* -------------------------------------------------------------------- state

VARIABLES
  heap,     \* the nodes allocated so far; a node's identifier is its index
  handles,  \* the sessions Open has returned so far
  last,     \* the call that returned last: its name, its target and its error
  thr,      \* ConcSpec: each goroutine's call and its position in it
  lock      \* ConcSpec: each node's RWMutex

vars == <<heap, handles, last, thr, lock>>

Root == 1

Nodes == 1..Len(heap)
Files == {n \in Nodes : ~heap[n].dir}
Trees == {n \in Nodes : heap[n].dir}
Sessions == 1..Len(handles)
FileSessions == {s \in Sessions : ~handles[s].dir}
TreeSessions == {s \in Sessions : handles[s].dir}

\* ------------------------------------------------------------------- inputs

\* (offset, whence) pairs: every absolute target from one below zero to one
\* past the longest content, short relative moves, and an unknown whence.
SeekArgs ==
  {<<off, 0>> : off \in -1..(MaxLen + 1)}
    \cup {<<off, w>> : off \in -1..1, w \in {1, 2}}
    \cup {<<0, 3>>}
ReadLens == 0..(MaxLen + 1)
WriteData == UNION {[1..k -> Bytes] : k \in 0..2}
CreateModes == {M0777 \cup DMDIR, M0666}
\* The Stats written to file f: a change of name, owner, group and mode that
\* leaves the length alone, or a new length with the other fields as they are.
FileStats(f) ==
  {[Name |-> "b", UID |-> "u2", GID |-> "g2", Mode |-> M0777, Length |-> NoLength],
   [Name |-> "a", UID |-> "u1", GID |-> "g1", Mode |-> M0555, Length |-> NoLength]}
    \cup {[Name |-> f.name, UID |-> f.user, GID |-> f.group, Mode |-> f.permissions,
           Length |-> l] : l \in 0..(MaxLen + 1)}
\* Every Stat a caller may write: each name, owner, group and mode with each
\* length, the "unchanged" length among them.
AnyStats(modes) ==
  [Name : Names, UID : Users, GID : {"g1", "g2"}, Mode : modes,
   Length : {NoLength} \cup 0..(MaxLen + 1)]
\* The Stats written to a directory.
TreeStats ==
  {[Name |-> "b", UID |-> "u2", GID |-> "g2", Mode |-> M0777 \cup DMDIR, Length |-> NoLength],
   [Name |-> "a", UID |-> "u1", GID |-> "g1", Mode |-> M0666 \cup DMDIR, Length |-> NoLength]}
\* The names Rename is called with: those of Create, and one no Create uses.
RenameNames == Names \cup {"c"}
\* The nodes a caller builds to graft with Add: their own name may differ
\* from the name they are added under.
Grafts(id) ==
  {NewRAMFile("a", M0666, "u1", "g1", id), NewRAMTree("a", M0777 \cup DMDIR, "u1", "g1", id)}

\* ------------------------------------------------------------------ actions

Returned(op, tgt, r) ==
  last' = [op |-> op, tgt |-> tgt, err |-> r.err]

\* A call on a session: the handler's state after it is the next state.  A
\* panic ends the program: no call follows it.
SessionCall(op, s, r) ==
  /\ last.err # Panic
  /\ heap' = r.heap
  /\ handles' = r.handles
  /\ Returned(op, s, r)
  /\ UNCHANGED <<thr, lock>>

\* A call on a node that hands out no session.
NodeCall(op, n, r) ==
  /\ last.err # Panic
  /\ heap' = r.heap
  /\ Returned(op, n, r)
  /\ UNCHANGED <<handles, thr, lock>>

Init ==
  /\ heap = <<NewRAMTree("", M0755 \cup DMDIR, "u1", "g1", Root)>>
  /\ handles = <<>>
  /\ last = [op |-> "init", tgt |-> Nil, err |-> ""]
  /\ thr = <<>>
  /\ lock = <<>>

FileSeek(s, offset, whence) ==
  SessionCall("Seek", s, RAMOpenFile_Seek(heap, handles, s, offset, whence))

FileRead(s, plen) ==
  SessionCall("Read", s, RAMOpenFile_Read(heap, handles, s, plen))

FileWrite(s, p) ==
  /\ handles[s].node # Nil =>
       /\ heap[handles[s].node].version < MaxVersion
       /\ handles[s].offset + Len(p) <= MaxLen
  /\ SessionCall("Write", s, RAMOpenFile_Write(heap, handles, s, p))

FileClose(s) ==
  SessionCall("Close", s, RAMOpenFile_Close(heap, handles, s))

FileWriteStat(n, st) ==
  /\ heap[n].version < MaxVersion
  /\ NodeCall("WriteStat", n, RAMFile_WriteStat(heap, n, st))

FileStat(n) ==
  NodeCall("Stat", n, R(heap, handles, 0, <<RAMFile_Stat(heap[n])>>, ""))

FileOpen(n, user, mode) ==
  LET r == RAMFile_Open(heap, handles, n, user, mode)
  IN /\ Cardinality({s \in 1..Len(r.handles) : ~r.handles[s].dir}) <= MaxFileSessions
     /\ SessionCall("Open", n, r)

TreeSeek(s, offset, whence, order) ==
  SessionCall("Seek", s, RAMOpenTree_Seek(heap, handles, s, offset, whence, order))

TreeRead(s, plen) ==
  SessionCall("Read", s, RAMOpenTree_Read(heap, handles, s, plen))

TreeWrite(s, p) ==
  SessionCall("Write", s, RAMOpenTree_Write(heap, handles, s, p))

TreeClose(s) ==
  SessionCall("Close", s, RAMOpenTree_Close(heap, handles, s))

TreeWriteStat(n, st) ==
  /\ heap[n].version < MaxVersion
  /\ NodeCall("WriteStat", n, RAMTree_WriteStat(heap, n, st))

TreeStat(n) ==
  NodeCall("Stat", n, R(heap, handles, 0, <<RAMTree_Stat(heap[n])>>, ""))

TreeOpen(n, user, mode) ==
  LET r == RAMTree_Open(heap, handles, n, user, mode)
  IN /\ Cardinality({s \in 1..Len(r.handles) : r.handles[s].dir}) <= MaxTreeSessions
     /\ SessionCall("Open", n, r)

TreeCreate(n, user, name, perms) ==
  /\ Len(heap) < MaxNodes
  /\ heap[n].version < MaxVersion
  /\ NodeCall("Create", n, RAMTree_Create(heap, n, user, name, perms))

TreeAdd(n, name, f) ==
  /\ Len(heap) < MaxNodes
  /\ heap[n].version < MaxVersion
  /\ NodeCall("Add", n, RAMTree_Add(heap, n, name, f))

TreeRename(n, user, oldname, newname) ==
  NodeCall("Rename", n, RAMTree_Rename(heap, n, user, oldname, newname))

TreeRemove(n, user, name) ==
  /\ heap[n].version < MaxVersion
  /\ NodeCall("Remove", n, RAMTree_Remove(heap, n, user, name))

TreeWalk(n, user, name) ==
  NodeCall("Walk", n, RAMTree_Walk(heap, n, user, name))

\* The map iteration orders of the directory behind session s.
SessionOrders(s) ==
  IF handles[s].node = Nil THEN {<<>>} ELSE Orders(DOMAIN heap[handles[s].node].tree)

\* The calls on file nodes and file sessions, and on the directory above the
\* files: opening and closing it, and removing a file from it.
FileNext ==
  \/ \E s \in FileSessions, a \in SeekArgs : FileSeek(s, a[1], a[2])
  \/ \E s \in FileSessions, l \in ReadLens : FileRead(s, l)
  \/ \E s \in FileSessions, p \in WriteData : FileWrite(s, p)
  \/ \E s \in FileSessions : FileClose(s)
  \/ \E n \in Files : \E st \in FileStats(heap[n]) : FileWriteStat(n, st)
  \/ \E n \in Files : FileStat(n)
  \/ \E n \in Files, u \in Users, m \in OpenModes : FileOpen(n, u, m)
  \/ \E n \in Trees, u \in Users, m \in OpenModes : TreeOpen(n, u, m)
  \/ \E s \in TreeSessions, p \in WriteData : TreeWrite(s, p)
  \/ \E s \in TreeSessions : TreeClose(s)
  \/ \E n \in Trees, u \in Users, nm \in Names : TreeRemove(n, u, nm)

\* The calls on directory nodes.
TreeNext ==
  \/ \E n \in Trees, st \in TreeStats : TreeWriteStat(n, st)
  \/ \E n \in Trees : TreeStat(n)
  \/ \E n \in Trees, u \in Users, nm \in Names, m \in CreateModes : TreeCreate(n, u, nm, m)
  \/ \E n \in Trees, nm \in Names, f \in Grafts(Len(heap) + 1) : TreeAdd(n, nm, f)
  \/ \E n \in Trees, u \in Users, a \in RenameNames, b \in RenameNames :
       TreeRename(n, u, a, b)
  \/ \E n \in Trees, u \in Users, nm \in Names : TreeRemove(n, u, nm)
  \/ \E n \in Trees, u \in Users, nm \in Names : TreeWalk(n, u, nm)

\* The calls on directory sessions, and the calls that change what a
\* directory lists.
ListNext ==
  \/ \E n \in Trees, u \in Users, m \in OpenModes : TreeOpen(n, u, m)
  \/ \E s \in TreeSessions, a \in SeekArgs :
       \E order \in SessionOrders(s) : TreeSeek(s, a[1], a[2], order)
  \/ \E s \in TreeSessions, l \in ReadLens : TreeRead(s, l)
  \/ \E s \in TreeSessions, p \in WriteData : TreeWrite(s, p)
  \/ \E s \in TreeSessions : TreeClose(s)
  \/ \E n \in Trees, u \in Users, nm \in Names, m \in CreateModes : TreeCreate(n, u, nm, m)
  \/ \E n \in Trees, nm \in Names, f \in Grafts(Len(heap) + 1) : TreeAdd(n, nm, f)
  \/ \E n \in Trees, u \in Users, a \in Names, b \in Names : TreeRename(n, u, a, b)
  \/ \E n \in Trees, u \in Users, nm \in Names : TreeRemove(n, u, nm)

\* A root directory holding one file, as Create leaves them.
FileInit ==
  /\ heap = RAMTree_Create(<<NewRAMTree("", M0755 \cup DMDIR, "u1", "g1", Root)>>,
                           Root, "u1", "a", M0666).heap
  /\ handles = <<>>
  /\ last = [op |-> "Create", tgt |-> Root, err |-> ""]
  /\ thr = <<>>
  /\ lock = <<>>

FileSpec == FileInit /\ [][FileNext]_vars

TreeSpec == Init /\ [][TreeNext]_vars

ListSpec == Init /\ [][ListNext]_vars

\* The calls that make, name and look up the nodes of a tree: every node
\* but the root is one Create has made.
NameNext ==
  \/ \E n \in Trees, u \in Users, nm \in Names, m \in CreateModes : TreeCreate(n, u, nm, m)
  \/ \E n \in Trees, u \in Users, a \in RenameNames, b \in RenameNames :
       TreeRename(n, u, a, b)
  \/ \E n \in Trees, st \in TreeStats : TreeWriteStat(n, st)
  \/ \E n \in Files : \E st \in FileStats(heap[n]) : FileWriteStat(n, st)
  \/ \E n \in Trees : TreeStat(n)
  \/ \E n \in Files : FileStat(n)
  \/ \E n \in Trees, u \in Users, nm \in Names : TreeWalk(n, u, nm)
  \/ \E n \in Trees, u \in Users, nm \in Names : TreeRemove(n, u, nm)

NameSpec == Init /\ [][NameNext]_vars

\* --------------------------------------------------------------- goroutines

\* Goroutines calling into the package at the same time, one call each.
NThreads == 2
Threads == 1..NThreads

\* The tree the goroutines share, built by the package's own calls: the root
\* holds the directory "a" (node 2) and the file "b" (node 3); goroutine i
\* holds file session i on "b" and session NThreads+i on the root.
DirA == 2
FileB == 3

RECURSIVE OpenFiles(_, _)
OpenFiles(r, k) ==
  IF k = 0 THEN r
  ELSE OpenFiles(RAMFile_Open(r.heap, r.handles, FileB, "u1", "ORDWR"), k - 1)

RECURSIVE OpenRoots(_, _)
OpenRoots(r, k) ==
  IF k = 0 THEN r
  ELSE OpenRoots(RAMTree_Open(r.heap, r.handles, Root, "u1", "OREAD"), k - 1)

ConcBuilt ==
  LET h0 == <<NewRAMTree("", M0755 \cup DMDIR, "u1", "g1", Root)>>
      h1 == RAMTree_Create(h0, Root, "u1", "a", M0777 \cup DMDIR).heap
      h2 == RAMTree_Create(h1, Root, "u1", "b", M0666).heap
  IN OpenRoots(OpenFiles(R(h2, <<>>, 0, <<>>, ""), NThreads), NThreads)

RootSession(t) == NThreads + t

\* Every node a run can hold: those built, and one more per goroutine.
LockIds == 1..(Len(ConcBuilt.heap) + NThreads)

\* sync.RWMutex: the number of read locks held, and the goroutine that has
\* called Lock (0: none).  From its call on, that writer keeps new readers
\* out; it holds the lock once no read lock is left.
FreeLock == [readers |-> 0, writer |-> 0]

CanRLock(n) == lock[n].writer = 0
RLocked(l, n) == [l EXCEPT ![n].readers = @ + 1]
RUnlocked(l, n, k) == [l EXCEPT ![n].readers = @ - k]
CanLock(n) == lock[n].writer = 0
LockCalled(l, n, t) == [l EXCEPT ![n].writer = t]
HoldsLock(n, t) == lock[n].writer = t /\ lock[n].readers = 0
Unlocked(l, n) == [l EXCEPT ![n].writer = 0]

\* The calls goroutine t may make.
ConcCalls(t) ==
  {[op |-> "FileWrite", s |-> t, p |-> p] : p \in {<<120>>, <<121, 121>>}}
    \cup {[op |-> "FileRead", s |-> t, plen |-> 1],
          [op |-> "FileSeek", s |-> t, offset |-> 0, whence |-> 0],
          [op |-> "TreeSeek", s |-> RootSession(t), offset |-> 0, whence |-> 0],
          [op |-> "TreeStat", n |-> Root],
          [op |-> "TreeRemove", n |-> Root, user |-> "u1", name |-> "a"],
          [op |-> "TreeCreate", n |-> DirA, user |-> "u1", name |-> "a", perms |-> M0666],
          [op |-> "TreeCreate", n |-> Root, user |-> "u1", name |-> "a", perms |-> M0666],
          [op |-> "TreeAdd", n |-> DirA, name |-> "b"],
          [op |-> "TreeRename", n |-> Root, user |-> "u1", oldname |-> "b", newname |-> "a"],
          [op |-> "TreeWalk", n |-> Root, user |-> "u1", name |-> "a"],
          [op |-> "TreeOpen", n |-> Root, user |-> "u1", mode |-> "OREAD"],
          [op |-> "TreeWriteStat", n |-> Root,
           st |-> [Name |-> "", UID |-> "u1", GID |-> "g1", Mode |-> M0755 \cup DMDIR,
                   Length |-> NoLength]],
          [op |-> "TreeClose", s |-> RootSession(t)]}

ExclusiveOps ==
  {"TreeCreate", "TreeAdd", "TreeRename", "TreeWalk", "TreeOpen", "TreeWriteStat",
   "TreeClose", "TreeRemove"}

\* Where a call starts.
FirstPc(op) ==
  CASE op = "FileWrite" -> "w_check"
    [] op \in {"FileRead", "FileSeek", "TreeSeek"} -> "rlock"
    [] op = "TreeStat" -> "st_rlock"
    [] OTHER -> "lock"

\* The node whose lock call c takes first (Nil behind a closed session).
CallNode(c) ==
  IF c.op \in {"FileRead", "FileSeek", "TreeSeek", "TreeClose", "FileWrite"}
  THEN handles[c.s].node ELSE c.n

\* A call's local variables: Write's new buffer b and its copy v of the
\* version, update's remaining keys and its bytes.Buffer, the node Stat is
\* called on and where Stat returns to.
NoLoc == [b |-> <<>>, v |-> 0, rest |-> <<>>, buf |-> <<>>, stn |-> Nil, ret |-> "done"]

Idle == [pc |-> "idle", call |-> [op |-> "none"], err |-> "", loc |-> NoLoc]

ConcInit ==
  /\ heap = ConcBuilt.heap
  /\ handles = ConcBuilt.handles
  /\ last = [op |-> "Open", tgt |-> Root, err |-> ""]
  /\ thr = [t \in Threads |-> Idle]
  /\ lock = [n \in LockIds |-> FreeLock]

Mid(t) == thr[t].pc \notin {"idle", "done"}

Done(th, err) == [th EXCEPT !.pc = "done", !.err = err, !.loc = NoLoc]

\* Goroutine t enters a call.
Begin(t, c) ==
  /\ thr[t].pc = "idle"
  /\ thr' = [thr EXCEPT ![t] =
       [pc |-> FirstPc(c.op), call |-> c, err |-> "",
        loc |-> IF c.op = "TreeStat" THEN [NoLoc EXCEPT !.stn = c.n] ELSE NoLoc]]
  /\ UNCHANGED <<heap, handles, last, lock>>

\* Lock(): a closed session has no node to lock.
LockCall(t) ==
  LET c == thr[t].call
      n == CallNode(c)
  IN /\ thr[t].pc = "lock"
     /\ IF n = Nil
        THEN /\ thr' = [thr EXCEPT ![t] = Done(@, Panic)]
             /\ UNCHANGED lock
        ELSE /\ CanLock(n)
             /\ lock' = LockCalled(lock, n, t)
             /\ thr' = [thr EXCEPT ![t].pc = "excl"]
     /\ UNCHANGED <<heap, handles, last>>

\* What a call does while it holds its directory's lock.
ExclResult(c) ==
  CASE c.op = "TreeCreate" ->
         [RAMTree_Create(heap, c.n, c.user, c.name, c.perms) EXCEPT !.handles = handles]
    [] c.op = "TreeAdd" ->
         [RAMTree_Add(heap, c.n, c.name, NewRAMFile(c.name, M0666, "u1", "g1", Len(heap) + 1))
            EXCEPT !.handles = handles]
    [] c.op = "TreeRename" ->
         [RAMTree_Rename(heap, c.n, c.user, c.oldname, c.newname) EXCEPT !.handles = handles]
    [] c.op = "TreeWalk" ->
         [RAMTree_Walk(heap, c.n, c.user, c.name) EXCEPT !.handles = handles]
    [] c.op = "TreeWriteStat" ->
         [RAMTree_WriteStat(heap, c.n, c.st) EXCEPT !.handles = handles]
    [] c.op = "TreeOpen" -> RAMTree_Open(heap, handles, c.n, c.user, c.mode)
    [] c.op = "TreeClose" -> RAMOpenTree_Close(heap, handles, c.s)

\* The body of Create, Add, Rename, Walk, Open, WriteStat and Close, and the
\* deferred Unlock.
ExclBody(t) ==
  LET c == thr[t].call
      n == CallNode(c)
      r == ExclResult(c)
  IN /\ thr[t].pc = "excl"
     /\ c.op # "TreeRemove"
     /\ HoldsLock(n, t)
     /\ heap' = r.heap
     /\ handles' = r.handles
     /\ lock' = Unlocked(lock, n)
     /\ thr' = [thr EXCEPT ![t] = Done(@, r.err)]
     /\ UNCHANGED last

\* Remove up to and including f.CanRemove(), which reads the child without
\* the child's lock.
RemoveCheck(t) ==
  LET c == thr[t].call
      r == RAMTree_Remove(heap, c.n, c.user, c.name)
  IN /\ thr[t].pc = "excl"
     /\ c.op = "TreeRemove"
     /\ HoldsLock(c.n, t)
     /\ IF r.err # ""
        THEN /\ lock' = Unlocked(lock, c.n)
             /\ thr' = [thr EXCEPT ![t] = Done(@, r.err)]
        ELSE /\ thr' = [thr EXCEPT ![t].pc = "rm_delete"]
             /\ UNCHANGED lock
     /\ UNCHANGED <<heap, handles, last>>

\* Remove from delete(t.tree, name) on, and the deferred Unlock.
RemoveDelete(t) ==
  LET c == thr[t].call
  IN /\ thr[t].pc = "rm_delete"
     /\ heap' = [heap EXCEPT ![c.n].tree = TreeDelete(@, c.name),
                             ![c.n].version = @ + 1]
     /\ lock' = Unlocked(lock, c.n)
     /\ thr' = [thr EXCEPT ![t] = Done(@, "")]
     /\ UNCHANGED <<handles, last>>

\* The nil check and RLock() of a session's Seek or Read.
RLockCall(t) ==
  LET c == thr[t].call
      n == CallNode(c)
  IN /\ thr[t].pc = "rlock"
     /\ IF n = Nil
        THEN /\ thr' = [thr EXCEPT ![t] = Done(@, "file not open")]
             /\ UNCHANGED lock
        ELSE /\ CanRLock(n)
             /\ lock' = RLocked(lock, n)
             /\ thr' = [thr EXCEPT ![t].pc = "rbody"]
     /\ UNCHANGED <<heap, handles, last>>

\* The body of a file session's Read or Seek, and the deferred RUnlock.
ReadBody(t) ==
  LET c == thr[t].call
      r == IF c.op = "FileRead" THEN RAMOpenFile_Read(heap, handles, c.s, c.plen)
           ELSE RAMOpenFile_Seek(heap, handles, c.s, c.offset, c.whence)
  IN /\ thr[t].pc = "rbody"
     /\ c.op \in {"FileRead", "FileSeek"}
     /\ handles' = r.handles
     /\ lock' = RUnlocked(lock, CallNode(c), 1)
     /\ thr' = [thr EXCEPT ![t] = Done(@, r.err)]
     /\ UNCHANGED <<heap, last>>

\* A directory session's Seek up to ot.offset = offset.
SeekBody(t) ==
  LET c == thr[t].call
      r == RAMOpenTree_Seek(heap, handles, c.s, c.offset, c.whence, <<>>)
  IN /\ thr[t].pc = "rbody"
     /\ c.op = "TreeSeek"
     /\ IF r.err # ""
        THEN /\ lock' = RUnlocked(lock, CallNode(c), 1)
             /\ thr' = [thr EXCEPT ![t] = Done(@, r.err)]
             /\ UNCHANGED handles
        ELSE /\ handles' = [handles EXCEPT ![c.s].offset = r.n]
             /\ thr' = [thr EXCEPT ![t].pc = "upd_rlock"]
             /\ UNCHANGED lock
     /\ UNCHANGED <<heap, last>>

\* update(): RLock() on the lock Seek already holds, then the start of the
\* iteration over the map.
UpdRLock(t) ==
  LET n == CallNode(thr[t].call)
  IN /\ thr[t].pc = "upd_rlock"
     /\ CanRLock(n)
     /\ lock' = RLocked(lock, n)
     /\ \E order \in Orders(DOMAIN heap[n].tree) :
          thr' = [thr EXCEPT ![t].pc = "upd_iter", ![t].loc.rest = order]
     /\ UNCHANGED <<heap, handles, last>>

\* update(): one round of the loop (the Stat of a file takes no lock), or its
\* end: ot.buffer is set, and update's and Seek's deferred RUnlocks run.
UpdIter(t) ==
  LET c == thr[t].call
      n == CallNode(c)
      l == thr[t].loc
  IN /\ thr[t].pc = "upd_iter"
     /\ IF l.rest = <<>>
        THEN /\ handles' = [handles EXCEPT ![c.s].buffer = l.buf]
             /\ lock' = RUnlocked(lock, n, 2)
             /\ thr' = [thr EXCEPT ![t] = Done(@, "")]
        ELSE LET i == heap[n].tree[Head(l.rest)]
             IN /\ IF heap[i].dir
                   THEN thr' = [thr EXCEPT ![t].pc = "st_rlock", ![t].loc.stn = i,
                                           ![t].loc.ret = "upd_iter"]
                   ELSE thr' = [thr EXCEPT ![t].loc.buf = @ \o Encode(RAMFile_Stat(heap[i])),
                                           ![t].loc.rest = Tail(@)]
                /\ UNCHANGED <<handles, lock>>
     /\ UNCHANGED <<heap, last>>

\* RAMTree.Stat: RLock().
StatRLock(t) ==
  /\ thr[t].pc = "st_rlock"
  /\ CanRLock(thr[t].loc.stn)
  /\ lock' = RLocked(lock, thr[t].loc.stn)
  /\ thr' = [thr EXCEPT ![t].pc = "nm_rlock"]
  /\ UNCHANGED <<heap, handles, last>>

\* RAMTree.Name, called by Stat: RLock() on the lock Stat already holds.
NameRLock(t) ==
  /\ thr[t].pc = "nm_rlock"
  /\ CanRLock(thr[t].loc.stn)
  /\ lock' = RLocked(lock, thr[t].loc.stn)
  /\ thr' = [thr EXCEPT ![t].pc = "st_body"]
  /\ UNCHANGED <<heap, handles, last>>

\* RAMTree.Stat: the record is built, Name's and Stat's deferred RUnlocks run.
StatBody(t) ==
  LET l == thr[t].loc
  IN /\ thr[t].pc = "st_body"
     /\ lock' = RUnlocked(lock, l.stn, 2)
     /\ IF l.ret = "done"
        THEN thr' = [thr EXCEPT ![t] = Done(@, "")]
        ELSE thr' = [thr EXCEPT ![t].pc = l.ret,
                                ![t].loc.buf = @ \o Encode(RAMTree_Stat(heap[l.stn])),
                                ![t].loc.rest = Tail(@)]
     /\ UNCHANGED <<heap, handles, last>>

\* Write takes no lock.  Its nil check, its comparison against len(content)
\* and, when the file grows, make and copy(b, content[:offset]).
WriteCheck(t) ==
  LET c   == thr[t].call
      n   == CallNode(c)
      off == handles[c.s].offset
  IN /\ thr[t].pc = "w_check"
     /\ IF n = Nil THEN thr' = [thr EXCEPT ![t] = Done(@, "file not open")]
        ELSE IF Len(c.p) + off > Len(heap[n].content)
        THEN IF off > Len(heap[n].content) + Len(heap[n].spare)
             THEN thr' = [thr EXCEPT ![t] = Done(@, Panic)]
             ELSE thr' = [thr EXCEPT ![t].pc = "w_assign",
                                     ![t].loc.b = GrownBuffer(heap[n], off, Len(c.p))]
        ELSE thr' = [thr EXCEPT ![t].pc = "w_copy"]
     /\ UNCHANGED <<heap, handles, last, lock>>

\* Write: of.f.content = b.
WriteAssign(t) ==
  LET n == CallNode(thr[t].call)
  IN /\ thr[t].pc = "w_assign"
     /\ heap' = [heap EXCEPT ![n].content = thr[t].loc.b, ![n].spare = <<>>]
     /\ thr' = [thr EXCEPT ![t].pc = "w_copy"]
     /\ UNCHANGED <<handles, last, lock>>

\* Write: copy(of.f.content[of.offset:], p) into whatever content is now, and
\* of.offset += wlen.
WriteCopy(t) ==
  LET c   == thr[t].call
      n   == CallNode(c)
      off == handles[c.s].offset
  IN /\ thr[t].pc = "w_copy"
     /\ IF off > Len(heap[n].content)
        THEN /\ thr' = [thr EXCEPT ![t] = Done(@, Panic)]
             /\ UNCHANGED <<heap, handles>>
        ELSE /\ heap' = [heap EXCEPT ![n].content = CopyAt(@, off, c.p)]
             /\ handles' = [handles EXCEPT ![c.s].offset = off + Len(c.p)]
             /\ thr' = [thr EXCEPT ![t].pc = "w_ver_read"]
     /\ UNCHANGED <<last, lock>>

\* Write: of.f.version++ is a load ...
WriteVerRead(t) ==
  /\ thr[t].pc = "w_ver_read"
  /\ thr' = [thr EXCEPT ![t].pc = "w_ver_write",
                        ![t].loc.v = heap[CallNode(thr[t].call)].version]
  /\ UNCHANGED <<heap, handles, last, lock>>

\* ... and a store.
WriteVerWrite(t) ==
  /\ thr[t].pc = "w_ver_write"
  /\ heap' = [heap EXCEPT ![CallNode(thr[t].call)].version = thr[t].loc.v + 1]
  /\ thr' = [thr EXCEPT ![t] = Done(@, "")]
  /\ UNCHANGED <<handles, last, lock>>

\* A step of goroutine t inside its call.
Step(t) ==
  \/ LockCall(t)
  \/ ExclBody(t)
  \/ RemoveCheck(t)
  \/ RemoveDelete(t)
  \/ RLockCall(t)
  \/ ReadBody(t)
  \/ SeekBody(t)
  \/ UpdRLock(t)
  \/ UpdIter(t)
  \/ StatRLock(t)
  \/ NameRLock(t)
  \/ StatBody(t)
  \/ WriteCheck(t)
  \/ WriteAssign(t)
  \/ WriteCopy(t)
  \/ WriteVerRead(t)
  \/ WriteVerWrite(t)

ConcNext ==
  \E t \in Threads :
    \/ \E c \in ConcCalls(t) : Begin(t, c)
    \/ Step(t)

ConcSpec == ConcInit /\ [][ConcNext]_vars

\* ------------------------------------------------------------------- claims

SessionOps == {"Seek", "Read", "Write", "Close"}
Mutations == {"Write", "WriteStat", "Create", "Add", "Rename", "Remove"}

\* The node a returned call was made on, seen from the state before it.
TargetNode(l) == IF l.op \in SessionOps THEN handles[l.tgt].node ELSE l.tgt

\* The file after the goroutines' Writes have run one after another in `order`.
RECURSIVE SerialWrites(_, _, _)
SerialWrites(h, o, order) ==
  IF order = <<>> THEN h[FileB]
  ELSE LET c == thr[Head(order)].call
           r == RAMOpenFile_Write(h, o, c.s, c.p)
       IN SerialWrites(r.heap, r.handles, Tail(order))

WriteInFlight(t) == thr[t].pc \in {"w_assign", "w_copy", "w_ver_read", "w_ver_write"}
HoldsFileRLock(t) == thr[t].pc = "rbody" /\ thr[t].call.op \in {"FileRead", "FileSeek"}

\* C1: concurrent Writes through sessions on one file are serialized by the
\* file's lock: once all have returned, the content is what some serial order
\* of them gives and the version has grown by their number; and no Write is
\* between its accesses to the file while a Read or Seek holds the shared lock.
C1_WritesSerialized ==
  /\ (\A t \in Threads : thr[t].pc = "done" /\ thr[t].call.op = "FileWrite")
       => /\ heap[FileB].version = ConcBuilt.heap[FileB].version + NThreads
          /\ \E order \in Orders(Threads) :
               heap[FileB].content =
                 SerialWrites(ConcBuilt.heap, ConcBuilt.handles, order).content
  /\ \A t1, t2 \in Threads : ~(WriteInFlight(t1) /\ HoldsFileRLock(t2))

\* C2: a call that returns without error from Write, WriteStat, Create, Add,
\* Rename or Remove leaves its node's version strictly greater; any other
\* call (failed or read-only) leaves every node's version as it was.
C2_VersionTracksMutation ==
  [][\A n \in Nodes :
       IF last'.err = "" /\ last'.op \in Mutations /\ TargetNode(last') = n
       THEN heap'[n].version > heap[n].version
       ELSE heap'[n].version = heap[n].version]_vars

\* C3: a directory session's snapshot buffer changes only in a Seek on that
\* session whose resulting offset is 0; a Seek to the current non-zero offset
\* leaves the buffer as it is.
C3_SnapshotOnlyOnRewind ==
  [][\A s \in TreeSessions :
       handles'[s].buffer # handles[s].buffer
         => last'.op = "Seek" /\ last'.tgt = s /\ handles'[s].offset = 0]_vars

\* C4: when Remove deletes the entry of a directory, that directory's mapping
\* is empty at that moment.
C4_RemovedDirectoryIsEmpty ==
  [][\A t \in Threads :
       (thr[t].pc = "rm_delete" /\ thr'[t].pc = "done")
         => File_CanRemove(heap[heap[thr[t].call.n].tree[thr[t].call.name]])]_vars

\* C5: no deadlock: while calls are in progress, one of them can take a step.
C5_NoDeadlock ==
  (\E t \in Threads : Mid(t)) => (\E t \in Threads : Mid(t) /\ ENABLED Step(t))

\* C6: a call on a session that Close has invalidated (Seek, Read, Write, or
\* Close again) fails with the "file not open" error.
C6_ClosedSessionNotOpen ==
  (/\ last.op \in SessionOps
   /\ handles[last.tgt].node = Nil
   /\ ~(last.op = "Close" /\ last.err = ""))
    => last.err = "file not open"

\* C7: in every state and for every buffer length, Read on an open file
\* session returns min(len(buffer), remaining) bytes from the offset and
\* advances the offset by that; with the offset at or past the end of the
\* content it returns zero bytes, no error, and leaves the offset.
C7_ReadAtOrPastEnd ==
  \A s \in FileSessions : \A l \in ReadLens :
    handles[s].node # Nil =>
      LET f   == heap[handles[s].node]
          off == handles[s].offset
          r   == RAMOpenFile_Read(heap, handles, s, l)
      IN /\ r.err = ""
         /\ r.heap = heap
         /\ off <= Len(f.content) =>
              /\ r.n = Min(l, Len(f.content) - off)
              /\ r.data = SubSeq(f.content, off + 1, off + r.n)
              /\ r.handles = [handles EXCEPT ![s].offset = off + r.n]
         /\ off >= Len(f.content) => r.n = 0 /\ r.handles = handles

\* C8: in every state, a Write through a file session whose offset is beyond
\* the content grows the content to offset+len(data), keeps the old bytes,
\* fills the gap with zero bytes and puts the data at the offset.
C8_GrowingWriteZeroFills ==
  \A s \in FileSessions : \A p \in WriteData :
    (handles[s].node # Nil /\ handles[s].offset > Len(heap[handles[s].node].content)) =>
      LET old == heap[handles[s].node].content
          off == handles[s].offset
          r   == RAMOpenFile_Write(heap, handles, s, p)
          new == r.heap[handles[s].node].content
      IN /\ r.err = ""
         /\ Len(new) = off + Len(p)
         /\ SubSeq(new, 1, Len(old)) = old
         /\ \A i \in (Len(old) + 1)..off : new[i] = 0
         /\ SubSeq(new, off + 1, off + Len(p)) = p

\* fileserver.File.Open, dispatched on the node's type.
File_Open(h, o, n, user, mode) ==
  IF h[n].dir THEN RAMTree_Open(h, o, n, user, mode) ELSE RAMFile_Open(h, o, n, user, mode)

\* C9: in every state, Open on a file or a directory returns a session exactly
\* when permCheck(requester is the owner, the node's bits, the access asked
\* for) allows: then the open-count grows by one and the new session is at
\* offset 0; else the error is "access denied" and nothing changes.  A
\* non-owner asking to write where the other-bits deny it is denied; the
\* owner with owner-write set is allowed.
C9_OpenIffPermitted ==
  \A n \in Nodes : \A u \in Users : \A m \in OpenModes :
    LET r       == File_Open(heap, handles, n, u, m)
        allowed == permCheck(heap[n].user = u, heap[n].permissions, m)
    IN /\ IF allowed
          THEN /\ r.err = ""
               /\ r.heap = [heap EXCEPT ![n].opens = heap[n].opens + 1]
               /\ r.n = Len(handles) + 1
               /\ r.handles = Append(handles, [dir |-> heap[n].dir, node |-> n,
                                               offset |-> 0, buffer |-> <<>>])
          ELSE /\ r.err = "access denied"
               /\ r.n = Nil
               /\ r.heap = heap
               /\ r.handles = handles
       /\ (m = "OWRITE" /\ heap[n].user # u /\ 1 \notin heap[n].permissions)
            => r.err = "access denied"
       /\ (m = "OWRITE" /\ heap[n].user = u /\ 7 \in heap[n].permissions) => r.err = ""

\* C9 witness: an Open has just been denied to a non-owner asking to write a
\* file whose other-bits deny it, while a session from an allowed Open exists.
C9_Witness ==
  /\ last.op = "Open"
  /\ last.err = "access denied"
  /\ ~heap[last.tgt].dir
  /\ 1 \notin heap[last.tgt].permissions
  /\ \E s \in Sessions : handles[s].node = last.tgt /\ handles[s].offset = 0
  /\ heap[last.tgt].opens = 1

\* The nodes no directory holds.
Detached == {n \in Nodes : \A d \in Trees : \A k \in DOMAIN heap[d].tree : heap[d].tree[k] # n}

\* C10: in every state, Remove(user, name) on a directory fails with "access
\* denied" without write access, with "no such file" for an absent name and
\* with "file could not be removed" for a non-empty directory, each leaving
\* every node as it was; on a file or an empty directory it succeeds and
\* deletes exactly that entry.
C10_RemoveRules ==
  \A n \in Trees : \A u \in Users : \A nm \in Names :
    LET t       == heap[n]
        r       == RAMTree_Remove(heap, n, u, nm)
        allowed == permCheck(t.user = u, t.permissions, "OWRITE")
    IN CASE ~allowed -> r.err = "access denied" /\ r.heap = heap
         [] allowed /\ nm \notin DOMAIN t.tree -> r.err = "no such file" /\ r.heap = heap
         [] allowed /\ nm \in DOMAIN t.tree /\ heap[t.tree[nm]].dir
              /\ DOMAIN heap[t.tree[nm]].tree # {} ->
              r.err = "file could not be removed" /\ r.heap = heap
         [] OTHER ->
              /\ r.err = ""
              /\ DOMAIN r.heap[n].tree = DOMAIN t.tree \ {nm}
              /\ \A k \in DOMAIN r.heap[n].tree : r.heap[n].tree[k] = t.tree[k]

\* C10 witness: Remove has just deleted a directory that had a child and
\* lost it again (two changes of its own mapping) and is now empty.
C10_Witness ==
  /\ last.op = "Remove"
  /\ last.err = ""
  /\ \E d \in (Trees \cap Detached) \ {Root} :
       heap[d].version = 2 /\ DOMAIN heap[d].tree = {}

\* C11: in every state, Rename(user, old, new) on a directory with both names
\* present fails with "file already exists"; every failed Rename (not found,
\* already exists, access denied) leaves every node as it was; a Rename
\* succeeds exactly when old is present, new is absent and the user may write,
\* and then new is bound to the node old was bound to, old is absent and
\* every other entry is as before.
C11_RenameFrame ==
  \A n \in Trees : \A u \in Users : \A old \in RenameNames : \A new \in RenameNames :
    LET t       == heap[n]
        r       == RAMTree_Rename(heap, n, u, old, new)
        rt      == r.heap[n].tree
        allowed == permCheck(t.user = u, t.permissions, "OWRITE")
    IN /\ (old \in DOMAIN t.tree /\ new \in DOMAIN t.tree)
            => r.err = "file already exists"
       /\ r.err # "" => /\ r.heap = heap
                        /\ r.err \in {"file not found", "file already exists", "access denied"}
       /\ old \notin DOMAIN t.tree => r.err = "file not found"
       /\ r.err = "" <=> (old \in DOMAIN t.tree /\ new \notin DOMAIN t.tree /\ allowed)
       /\ r.err = "" => /\ DOMAIN rt = (DOMAIN t.tree \ {old}) \cup {new}
                        /\ rt[new] = t.tree[old]
                        /\ \A k \in DOMAIN t.tree \ {old} : rt[k] = t.tree[k]
                        /\ Len(r.heap) = Len(heap)
                        /\ \A m \in Nodes \ {n} : r.heap[m] = heap[m]

\* C11 witness: a Rename has just succeeded in a directory that holds another
\* entry besides the renamed one.
C11_Witness ==
  /\ last.op = "Rename"
  /\ last.err = ""
  /\ DOMAIN heap[last.tgt].tree = {"b", "c"}

\* C12 as stated: in every state, a successful Create(user, name, perms)
\* followed at once by Walk(user, name) returns the node Create returned;
\* Walk of an absent name returns no node and no error; Create of a present
\* name fails with "file already exists" and leaves the entry as it was.
C12_CreateThenWalk_AsStated ==
  \A n \in Trees : \A u \in Users : \A nm \in Names : \A m \in CreateModes :
    LET t == heap[n]
        c == RAMTree_Create(heap, n, u, nm, m)
        w == RAMTree_Walk(c.heap, n, u, nm)
        a == RAMTree_Walk(heap, n, u, nm)
    IN /\ c.err = "" => (w.err = "" /\ w.n = c.n /\ c.n # Nil)
       /\ nm \notin DOMAIN t.tree => (a.err = "" /\ a.n = Nil)
       /\ nm \in DOMAIN t.tree => (c.err = "file already exists" /\ c.heap = heap)

\* C12, amended: the same, where Walk's user has execute access to the
\* directory and Create's user has write access to it; without execute access
\* Walk fails with "access denied" and returns no node, and without write
\* access Create fails with "access denied"; a failed Create changes nothing.
C12_CreateThenWalk ==
  \A n \in Trees : \A u \in Users : \A nm \in Names : \A m \in CreateModes :
    LET t     == heap[n]
        exec  == permCheck(t.user = u, t.permissions, "OEXEC")
        write == permCheck(t.user = u, t.permissions, "OWRITE")
        c     == RAMTree_Create(heap, n, u, nm, m)
        w     == RAMTree_Walk(c.heap, n, u, nm)
        a     == RAMTree_Walk(heap, n, u, nm)
    IN /\ c.err = "" <=> (write /\ nm \notin DOMAIN t.tree)
       /\ c.err = "" =>
            /\ c.n = Len(heap) + 1
            /\ c.heap[n].tree[nm] = c.n
            /\ c.heap[c.n].dir = (m \cap DMDIR # {})
            /\ IF exec THEN w.err = "" /\ w.n = c.n
                       ELSE w.err = "access denied" /\ w.n = Nil
       /\ nm \notin DOMAIN t.tree =>
            IF exec THEN a.err = "" /\ a.n = Nil ELSE a.err = "access denied" /\ a.n = Nil
       /\ nm \in DOMAIN t.tree =>
            /\ c.err = (IF write THEN "file already exists" ELSE "access denied")
            /\ c.heap = heap
            /\ exec => (a.err = "" /\ a.n = t.tree[nm])
       /\ a.heap = heap /\ w.heap = c.heap

\* C12 witness: a Create has just succeeded in a directory whose owner may
\* write it but not traverse it.
C12_Witness ==
  /\ last.op = "Create"
  /\ last.err = ""
  /\ 7 \in heap[last.tgt].permissions
  /\ 6 \notin heap[last.tgt].permissions
  /\ DOMAIN heap[last.tgt].tree # {}

\* C13: in every state and for every Stat s, WriteStat(s) on a file with
\* s.Length set and greater than the content's length fails with "cannot
\* extend length" and changes nothing; otherwise it succeeds, stores the
\* fields and cuts the content to its first s.Length bytes (leaves it when
\* the length is "unchanged"); Stat's Length is the content's length; and a
\* file's content gets longer only in a session Write on that file and
\* shorter only in a WriteStat on it.
C13_WriteStatLength ==
  /\ [](\A n \in Files : \A s \in AnyStats({M0777, M0555}) :
          LET f == heap[n]
              r == RAMFile_WriteStat(heap, n, s)
              g == r.heap[n]
          IN /\ RAMFile_Stat(f).Length = Len(f.content)
             /\ IF s.Length # NoLength /\ s.Length > Len(f.content)
                THEN r.err = "cannot extend length" /\ r.heap = heap
                ELSE /\ r.err = ""
                     /\ g.content = IF s.Length = NoLength THEN f.content
                                    ELSE SubSeq(f.content, 1, s.Length)
                     /\ g.name = s.Name /\ g.user = s.UID /\ g.group = s.GID
                     /\ g.permissions = s.Mode
                     /\ g.version = f.version + 1
                     /\ RAMFile_Stat(g).Length = Len(g.content)
                     /\ \A m \in Nodes \ {n} : r.heap[m] = heap[m])
  /\ [][\A n \in Files :
          /\ Len(heap'[n].content) > Len(heap[n].content)
               => (last'.op = "Write" /\ last'.err = "" /\ handles[last'.tgt].node = n)
          /\ Len(heap'[n].content) < Len(heap[n].content)
               => (last'.op = "WriteStat" /\ last'.err = "" /\ last'.tgt = n)]_vars

\* C13 witness: a WriteStat has just cut a two-byte file to its first byte.
C13_Witness ==
  /\ last.op = "WriteStat"
  /\ last.err = ""
  /\ ~heap[last.tgt].dir
  /\ Len(heap[last.tgt].content) = 1
  /\ Len(heap[last.tgt].spare) = 1

\* C14: in every state, Seek(offset, origin) on an open file session, with
\* the target counted from 0, from the session's offset or from the content's
\* length, succeeds exactly when 0 <= target <= length and then sets the
\* offset to the target and returns it: the length itself is accepted, one
\* past it fails with "seek past length", a negative target with "negative
\* seek invalid", an unknown origin with "invalid whence value"; a failed Seek
\* leaves the session as it was, and no Seek changes a node.
C14_FileSeekBounds ==
  \A s \in FileSessions : \A a \in SeekArgs :
    handles[s].node # Nil =>
      LET length == Len(heap[handles[s].node].content)
          cur    == handles[s].offset
          known  == a[2] \in {0, 1, 2}
          target == IF a[2] = 0 THEN a[1] ELSE IF a[2] = 1 THEN cur + a[1] ELSE length + a[1]
          r      == RAMOpenFile_Seek(heap, handles, s, a[1], a[2])
          end    == RAMOpenFile_Seek(heap, handles, s, length, 0)
          past   == RAMOpenFile_Seek(heap, handles, s, length + 1, 0)
      IN /\ r.heap = heap
         /\ r.err = "" <=> (known /\ 0 <= target /\ target <= length)
         /\ r.err = "" => (r.handles = [handles EXCEPT ![s].offset = target] /\ r.n = target)
         /\ r.err # "" => r.handles = handles
         /\ ~known => r.err = "invalid whence value"
         /\ (known /\ target < 0) => r.err = "negative seek invalid"
         /\ (known /\ target > length) => r.err = "seek past length"
         /\ end.err = "" /\ end.handles[s].offset = length
         /\ past.err = "seek past length" /\ past.handles = handles

\* C14 witness: a Seek has just been refused for going past the end of a
\* file that has content, with the session inside the content.
C14_Witness ==
  /\ last.op = "Seek"
  /\ last.err = "seek past length"
  /\ handles[last.tgt].node # Nil
  /\ Len(heap[handles[last.tgt].node].content) = 2
  /\ handles[last.tgt].offset = 1

\* C15: in every state, Seek on an open directory session succeeds exactly
\* when the origin is known and the target is 0 or the session's offset, and
\* then the offset is the target; any other Seek fails with "negative seek
\* invalid", "invalid whence value" or "seek to other than 0 on dir illegal"
\* and leaves the session's offset and buffer as they were; no Seek changes a
\* node.  Write on a directory session fails with "cannot write to
\* directory" and changes neither a node nor a session.
C15_DirSeekAndWrite ==
  /\ \A s \in TreeSessions : \A a \in SeekArgs : \A order \in SessionOrders(s) :
       handles[s].node # Nil =>
         LET length == Len(handles[s].buffer)
             cur    == handles[s].offset
             known  == a[2] \in {0, 1, 2}
             target == IF a[2] = 0 THEN a[1] ELSE IF a[2] = 1 THEN cur + a[1] ELSE length + a[1]
             r      == RAMOpenTree_Seek(heap, handles, s, a[1], a[2], order)
         IN /\ r.heap = heap
            /\ r.err = "" <=> (known /\ (target = 0 \/ target = cur))
            /\ r.err = "" => (r.handles[s].offset = target /\ r.n = target)
            /\ r.err # "" => r.handles = handles
            /\ ~known => r.err = "invalid whence value"
            /\ (known /\ target < 0) => r.err = "negative seek invalid"
            /\ (known /\ target > 0 /\ target # cur)
                 => r.err = "seek to other than 0 on dir illegal"
            /\ \A s2 \in Sessions \ {s} : r.handles[s2] = handles[s2]
  /\ \A s \in TreeSessions : \A p \in WriteData :
       LET w == RAMOpenTree_Write(heap, handles, s, p)
       IN w.err = "cannot write to directory" /\ w.n = 0 /\ w.heap = heap /\ w.handles = handles

\* C15 witness: a Seek has just been refused on a directory session that is
\* part-way through a listing.
C15_Witness ==
  /\ last.op = "Seek"
  /\ last.err = "seek to other than 0 on dir illegal"
  /\ handles[last.tgt].node # Nil
  /\ handles[last.tgt].offset > 0
  /\ handles[last.tgt].offset < Len(handles[last.tgt].buffer)

\* C16: in every state, for a session at offset 0 of a file with no content
\* and every byte sequence B: after Write(B), the file's content has length
\* len(B), and a Read of len(B) bytes returns exactly B, both through the
\* same session after Seek(0, absolute) and through a session a later Open
\* returns.
C16_WriteReadRoundTrip ==
  \A s \in FileSessions : \A B \in WriteData :
    (/\ handles[s].node # Nil
     /\ handles[s].offset = 0
     /\ Len(heap[handles[s].node].content) = 0) =>
      LET n  == handles[s].node
          w  == RAMOpenFile_Write(heap, handles, s, B)
          sk == RAMOpenFile_Seek(w.heap, w.handles, s, 0, 0)
          rd == RAMOpenFile_Read(sk.heap, sk.handles, s, Len(B))
      IN /\ w.err = "" /\ w.n = Len(B)
         /\ Len(w.heap[n].content) = Len(B)
         /\ RAMFile_Stat(w.heap[n]).Length = Len(B)
         /\ sk.err = ""
         /\ rd.err = "" /\ rd.n = Len(B) /\ rd.data = B
         /\ \A u \in Users : \A m \in {"OREAD", "ORDWR"} :
              LET op  == RAMFile_Open(w.heap, w.handles, n, u, m)
                  rd2 == RAMOpenFile_Read(op.heap, op.handles, op.n, Len(B))
              IN op.err = "" => (rd2.err = "" /\ rd2.n = Len(B) /\ rd2.data = B)

\* C16 witness: the first change of a file has just been a Write of two
\* different bytes, which left the session at the end of them.
C16_Witness ==
  /\ last.op = "Write"
  /\ last.err = ""
  /\ handles[last.tgt].node # Nil
  /\ heap[handles[last.tgt].node].version = 1
  /\ heap[handles[last.tgt].node].content = <<120, 121>>
  /\ handles[last.tgt].offset = 2

\* The node's WriteStat and Stat, dispatched on the node's type.
File_WriteStat(h, n, s) ==
  IF h[n].dir THEN RAMTree_WriteStat(h, n, s) ELSE RAMFile_WriteStat(h, n, s)

\* C17: in every state, for every file and directory and every Stat s, after
\* a successful WriteStat(s) the node's Stat has Name = s.Name, UID = s.UID,
\* GID = s.GID, Mode = s.Mode (with the directory flag for a directory) and
\* MUID = the node's stored last-modifying user.
C17_StatShowsWriteStat ==
  \A n \in Nodes : \A s \in AnyStats({M0777, M0555}) :
    LET r  == File_WriteStat(heap, n, s)
        g  == r.heap[n]
        st == File_Stat(g)
    IN r.err = "" =>
         /\ st.Name = s.Name
         /\ st.UID = s.UID
         /\ st.GID = s.GID
         /\ st.GID = g.group
         /\ st.Mode = (IF g.dir THEN s.Mode \cup DMDIR ELSE s.Mode)
         /\ st.MUID = g.muser

\* C18: in every state, Remove(user, name) of a file answers as it would if
\* the file had no open session, succeeds whenever the user may write the
\* directory, and leaves the file itself (content, open-count) as it was;
\* and every session on the file then gives, for Seek, Read, Write and
\* Close, the result, the session state and the file state it would have
\* given had the file not been removed.
C18_RemoveIgnoresOpens ==
  \A d \in Trees : \A u \in Users : \A nm \in DOMAIN heap[d].tree :
    LET c       == heap[d].tree[nm]
        allowed == permCheck(heap[d].user = u, heap[d].permissions, "OWRITE")
        r       == RAMTree_Remove(heap, d, u, nm)
        closed  == RAMTree_Remove([heap EXCEPT ![c].opens = 0], d, u, nm)
        Same(x, y) == /\ x.err = y.err /\ x.n = y.n /\ x.data = y.data
                      /\ x.handles = y.handles /\ x.heap[c] = y.heap[c]
    IN ~heap[c].dir =>
         /\ r.err = closed.err
         /\ r.err = (IF allowed THEN "" ELSE "access denied")
         /\ r.heap[c] = heap[c]
         /\ r.err = "" =>
              /\ nm \notin DOMAIN r.heap[d].tree
              /\ \A s \in FileSessions :
                   handles[s].node = c =>
                     /\ \A a \in SeekArgs :
                          Same(RAMOpenFile_Seek(r.heap, handles, s, a[1], a[2]),
                               RAMOpenFile_Seek(heap, handles, s, a[1], a[2]))
                     /\ \A l \in ReadLens :
                          Same(RAMOpenFile_Read(r.heap, handles, s, l),
                               RAMOpenFile_Read(heap, handles, s, l))
                     /\ \A p \in WriteData :
                          Same(RAMOpenFile_Write(r.heap, handles, s, p),
                               RAMOpenFile_Write(heap, handles, s, p))
                     /\ Same(RAMOpenFile_Close(r.heap, handles, s),
                             RAMOpenFile_Close(heap, handles, s))

\* C18 witness: a session has just written to a file that Remove had
\* detached from its directory while the session was open.
C18_Witness ==
  /\ last.op = "Write"
  /\ last.err = ""
  /\ handles[last.tgt].node \in Detached
  /\ heap[handles[last.tgt].node].opens = 1
  /\ heap[handles[last.tgt].node].version = 1
  /\ heap[handles[last.tgt].node].content # <<>>

\* C19: in every state reached by Create, Rename, WriteStat, Remove, Walk and
\* Stat, every entry (key -> child) of every directory has key = the Name the
\* child's Stat reports.
C19_KeyIsChildName ==
  \A d \in Trees : \A k \in DOMAIN heap[d].tree :
    File_Stat(heap[heap[d].tree[k]]).Name = k

\* fileserver.File.Parent, dispatched on the node's type.
File_Parent(h, n) == IF h[n].dir THEN RAMTree_Parent(h, n) ELSE RAMFile_Parent(h, n)

\* C20: in every state, the node a successful Create(user, name, perms) on
\* directory d returns has Parent() = d, and every node Create has put into
\* a directory has that directory as its Parent(); the root's Parent() is
\* the root.
C20_CreatedNodeHasParent ==
  /\ File_Parent(heap, Root) = Root
  /\ \A d \in Trees : \A k \in DOMAIN heap[d].tree : File_Parent(heap, heap[d].tree[k]) = d
  /\ \A d \in Trees : \A u \in Users : \A nm \in Names : \A m \in CreateModes :
       LET c == RAMTree_Create(heap, d, u, nm, m)
       IN c.err = "" => File_Parent(c.heap, c.n) = d

====
